---- MODULE Spec2Model ----
(***************************************************************************)
(* Flight-phase controller of motion_planning.py (class MotionPlanning).   *)
(*                                                                         *)
(* The drone object is one record per state; every callback is a function  *)
(* from the record before the event to the record after it, composed of    *)
(* the *_transition methods exactly as the source composes them.  An       *)
(* exception raised inside a callback ends that callback and keeps the     *)
(* assignments made before the raise (the event loop of the framework      *)
(* prints the traceback and delivers the next message).                    *)
(*                                                                         *)
(* Units: waypoints, grid cells and offsets are whole metres, as in the    *)
(* source; telemetry (local position, velocity, global altitude) is in     *)
(* fixed point, Scale units per metre, so that every float threshold of    *)
(* the callbacks (0.95, 3.0, 2.0, 1.0, 0.1, 0.01) is an exact integer      *)
(* comparison.                                                             *)
(***************************************************************************)
EXTENDS Integers, Sequences, FiniteSets, TLC

VARIABLES
    flight_state,     \* self.flight_state
    in_mission,       \* self.in_mission
    target_position,  \* self.target_position: <<n, e, alt>> or a waypoint
    waypoints,        \* self.waypoints: the queue
    path,             \* self.path: None or the planned cells
    north_offset,     \* self.north_offset: None or an integer
    east_offset,      \* self.east_offset
    log,              \* what has been sent / printed, in order
    local_position,   \* telemetry: <<north, east, down>>, fixed point
    local_velocity,   \* telemetry: <<vn, ve, vd>>, fixed point
    global_position,  \* telemetry: <<lon, lat, alt>>, alt fixed point
    armed,            \* telemetry: status.armed
    guided,           \* telemetry: status.guided
    event,            \* kind of the message delivered last
    fired,            \* whether the callback of that message changed anything
    call,             \* the conversion called last, with its arguments
    result            \* what that call returned

vars == <<flight_state, in_mission, target_position, waypoints, path,
          north_offset, east_offset, log, local_position, local_velocity,
          global_position, armed, guided, event, fired, call, result>>

-----------------------------------------------------------------------------
(* Bounds of the model *)

\* longest path the planner may return
MaxPathLen == 2

\* rows and columns of the grids the conversions are called with
GridSize == 2

-----------------------------------------------------------------------------
(* Program constants *)

TARGET_ALTITUDE == 5

\* fixed-point units per metre: the finest threshold of the callbacks is 0.01
Scale == 100

\* Optional values: None, or a one-element sequence holding the value
None == <<>>
Some(x) == <<x>>
Get(o) == o[1]

States == {"MANUAL", "ARMING", "TAKEOFF", "WAYPOINT", "LANDING", "DISARMING",
           "PLANNING"}

-----------------------------------------------------------------------------
(* Inputs: the telemetry values and planning results that are enumerated *)

\* down: on the ground, 1 unit up, exactly 0.95 x 5 m up, just above, cruise
Downs == {0, -1, -475, -476}
Norths == {0, 10 * Scale}
Positions == {<<n, 0, d>> : n \in Norths, d \in Downs}

\* horizontal speed 0 and exactly 1.0 m/s
Velocities == {<<0, 0, 0>>, <<Scale, 0, 0>>}

\* altitude above home 0 and exactly 0.1 m
GlobalPositions == {<<0, 0, 0>>, <<0, 0, 10>>}

\* grid cells a planned path may visit (north index, east index, altitude)
Cells == {<<1, 2, 5>>, <<3, 2, 5>>, <<11, 2, 5>>}

\* offsets create_grid may return
Offsets == {<<0, 0>>, <<-1, -2>>}

RECURSIVE SeqsUpTo(_, _)
SeqsUpTo(S, n) ==
    IF n = 0 THEN {<<>>}
    ELSE LET shorter == SeqsUpTo(S, n - 1)
         IN shorter \cup {Append(s, x) : s \in {t \in shorter : Len(t) = n - 1}, x \in S}

\* a Path has no duplicate consecutive cells
Paths == {p \in SeqsUpTo(Cells, MaxPathLen) :
            \A i \in 1..(Len(p) - 1) : p[i] # p[i + 1]}

\* how a planning run ends
PlanOutcomes == {"bad_header", "bad_data", "goal_out_of_range", "no_path", "found"}

-----------------------------------------------------------------------------
(* Arithmetic of the callbacks *)

Abs(x) == IF x < 0 THEN -x ELSE x

RECURSIVE Gcd(_, _)
Gcd(a, b) == IF b = 0 THEN a ELSE Gcd(b, a % b)

\* np.arctan2(dy, dx): the angle, represented by the direction it points in
\* (two displacements have the same angle iff the same reduced direction);
\* arctan2(0, dx) is 0 for dx >= 0, the direction <<0, 1>>
Arctan2(dy, dx) ==
    IF dy = 0 /\ dx >= 0 THEN <<0, 1>>
    ELSE LET g == Gcd(Abs(dy), Abs(dx)) IN <<dy \div g, dx \div g>>

\* the literal orientation = 0 of path_to_waypoints
ZeroHeading == <<0, 1>>

\* variant: the comparison written >= instead of >
TakeoffAltitudeReachedOrEqual(d) ==
    -1 * d.local_position[3] * 100 >= 95 * (d.target_position[3] * Scale)

\* -1.0 * local_position[2] > 0.95 * target_position[2]
TakeoffAltitudeReached(d) ==
    -1 * d.local_position[3] * 100 > 95 * (d.target_position[3] * Scale)

\* norm(target_position[0:2] - local_position[0:2]) < 3.0
HorizontalReached(d) ==
    LET dn == d.target_position[1] * Scale - d.local_position[1]
        de == d.target_position[2] * Scale - d.local_position[2]
    IN dn * dn + de * de < (3 * Scale) * (3 * Scale)

\* abs(target_position[2] - (-local_position[2])) < 2.0
VerticalReached(d) ==
    Abs(d.target_position[3] * Scale + d.local_position[3]) < 2 * Scale

\* variant: the speed check left out
SlowEnoughAlways(d) == TRUE

\* norm(local_velocity[0:2]) < 1.0
SlowEnough(d) ==
    d.local_velocity[1] * d.local_velocity[1]
        + d.local_velocity[2] * d.local_velocity[2] < Scale * Scale

\* variant: the comparison written > instead of <
NearHomeAltitudeReversed(d) == d.global_position[3] * 10 > Scale

\* home_position = (lon, lat, 0): the altitude of global_home
GlobalHomeAltitude == 0

\* global_position[2] - global_home[2] < 0.1
NearHomeAltitude(d) == (d.global_position[3] - GlobalHomeAltitude) * 10 < Scale

\* variant: the test of the local down position left out
OnGroundAlways(d) == TRUE

\* abs(local_position[2]) < 0.01
OnGround(d) == Abs(d.local_position[3]) * 100 < Scale

\* Python's ~ on a bool: ~True = -2, ~False = -1
PyInvert(b) == -1 - (IF b THEN 1 ELSE 0)

\* Python's & on two negative integers: x & y = ~(~x | ~y); here ~x, ~y are
\* 0 or 1, whose bitwise or is their maximum
PyAnd(x, y) ==
    LET a == -1 - x
        b == -1 - y
    IN -1 - (IF a > b THEN a ELSE b)

\* truth value of a Python integer
Truthy(x) == x # 0

\* ~self.armed & ~self.guided
DisarmedAndReleased(d) == Truthy(PyAnd(PyInvert(d.armed), PyInvert(d.guided)))

-----------------------------------------------------------------------------
(* What is sent or printed *)

Cmd(name, args) == [cmd |-> name, args |-> args]

Emit(d, name, args) == [d EXCEPT !.log = Append(@, Cmd(name, args))]

-----------------------------------------------------------------------------
(* Transitions *)

\* variant: take_control() called before arm()
arming_transition_control_first(d) ==
    LET d1 == [d EXCEPT !.flight_state = "ARMING"]
        d2 == Emit(d1, "take_control", <<>>)
    IN Emit(d2, "arm", <<>>)

arming_transition(d) ==
    LET d1 == [d EXCEPT !.flight_state = "ARMING"]
        d2 == Emit(d1, "arm", <<>>)
    IN Emit(d2, "take_control", <<>>)

\* variant: the assignment to flight_state left out
takeoff_transition_stays(d) ==
    Emit(d, "takeoff", <<d.target_position[3]>>)

takeoff_transition(d) ==
    LET d1 == [d EXCEPT !.flight_state = "TAKEOFF"]
    IN Emit(d1, "takeoff", <<d1.target_position[3]>>)

\* variant: pop() instead of pop(0), the last waypoint first
waypoint_transition_lifo(d) ==
    LET d1 == [d EXCEPT !.flight_state = "WAYPOINT"]
    IN IF Len(d1.waypoints) = 0 THEN d1
       ELSE LET n == Len(d1.waypoints)
                d2 == [d1 EXCEPT !.target_position = d1.waypoints[n],
                                 !.waypoints = SubSeq(d1.waypoints, 1, n - 1)]
            IN Emit(d2, "cmd_position", d2.target_position)

\* self.waypoints.pop(0) raises IndexError on an empty list, after the
\* assignment to flight_state
waypoint_transition(d) ==
    LET d1 == [d EXCEPT !.flight_state = "WAYPOINT"]
    IN IF Len(d1.waypoints) = 0 THEN d1
       ELSE LET d2 == [d1 EXCEPT !.target_position = Head(d1.waypoints),
                                 !.waypoints = Tail(d1.waypoints)]
            IN Emit(d2, "cmd_position", d2.target_position)

landing_transition(d) ==
    LET d1 == [d EXCEPT !.flight_state = "LANDING"]
    IN Emit(d1, "land", <<>>)

\* variant: the mission flag cleared already when disarming
disarming_transition_ends_mission(d) ==
    LET d1 == [d EXCEPT !.flight_state = "DISARMING", !.in_mission = FALSE]
        d2 == Emit(d1, "disarm", <<>>)
    IN Emit(d2, "release_control", <<>>)

disarming_transition(d) ==
    LET d1 == [d EXCEPT !.flight_state = "DISARMING"]
        d2 == Emit(d1, "disarm", <<>>)
    IN Emit(d2, "release_control", <<>>)

manual_transition(d) ==
    LET d1 == [d EXCEPT !.flight_state = "MANUAL"]
        d2 == Emit(d1, "stop", <<>>)
    IN [d2 EXCEPT !.in_mission = FALSE]

\* variant: the first waypoint commanded along with the list
send_waypoints_commanding(d) ==
    LET d1 == Emit(d, "send_waypoints", d.waypoints)
    IN IF d.waypoints = <<>> THEN d1
       ELSE Emit(d1, "cmd_position", Head(d.waypoints))

\* msgpack.dumps(self.waypoints) written to the connection
send_waypoints(d) == Emit(d, "send_waypoints", d.waypoints)

-----------------------------------------------------------------------------
(* Coordinate conversions; positions are fixed point, cells whole metres *)

\* variant: floor instead of truncation
PyIntFloor(x) == x \div Scale

\* int(x) of a float x: truncation toward zero
PyInt(x) == IF x >= 0 THEN x \div Scale ELSE -((-x) \div Scale)

grid_to_local(d, grid_coord) ==
    LET lat == (grid_coord[1] + Get(d.north_offset)) * Scale
        lon == (grid_coord[2] + Get(d.east_offset)) * Scale
    IN <<lat, lon, -1 * grid_coord[3] * Scale>>

\* variant: the down coordinate not negated
local_to_grid_down(d, position) ==
    <<PyInt(position[1] - Get(d.north_offset) * Scale),
      PyInt(position[2] - Get(d.east_offset) * Scale),
      PyInt(position[3])>>

local_to_grid(d, position) ==
    LET north == PyInt(position[1] - Get(d.north_offset) * Scale)
        east == PyInt(position[2] - Get(d.east_offset) * Scale)
        alt == PyInt(-1 * position[3])
    IN <<north, east, alt>>

\* index i of a numpy axis of length size: the position read (negative
\* indices count from the end), or None where IndexError is raised
NumpyIndex(size, i) ==
    IF 0 <= i /\ i < size THEN Some(i)
    ELSE IF -size <= i /\ i < 0 THEN Some(i + size)
    ELSE None

\* grid[north, east]: a one-element sequence with the value, or None where
\* IndexError is raised; a grid is a sequence of rows of fixed-point heights
GridAt(grid, north, east) ==
    LET r == NumpyIndex(Len(grid), north)
        c == NumpyIndex(Len(grid[1]), east)
    IN IF r = None \/ c = None THEN None
       ELSE Some(grid[Get(r) + 1][Get(c) + 1])

Max3(a, b, c) ==
    LET ab == IF a >= b THEN a ELSE b IN IF ab >= c THEN ab ELSE c

\* int(max(TARGET_ALTITUDE, grid_start[2] + 1, grid[...] + 1)), g the grid value
alt_start(start_alt, g) ==
    PyInt(Max3(TARGET_ALTITUDE * Scale, (start_alt + 1) * Scale, g + Scale))

\* variant: the margin over the grid value left out
goal_altitude_no_margin(goal_alt, g) ==
    PyInt(Max3(g, TARGET_ALTITUDE * Scale, (goal_alt + 1) * Scale))

\* int(max(grid[goal_north, goal_east] + 1, TARGET_ALTITUDE, goal_alt + 1))
goal_altitude(goal_alt, g) ==
    PyInt(Max3(g + Scale, TARGET_ALTITUDE * Scale, (goal_alt + 1) * Scale))

\* the start cell plan_path hands to a_star, or None where indexing raises
grid_start(d, grid, position) ==
    LET start == local_to_grid(d, position)
        g == GridAt(grid, start[1], start[2])
    IN IF g = None THEN None
       ELSE Some(<<start[1], start[2], alt_start(start[3], Get(g))>>)

\* the goal cell plan_path hands to a_star, or None where indexing raises
grid_goal(d, grid, goal_local) ==
    LET goal == local_to_grid(d, goal_local)
        g == GridAt(grid, goal[1], goal[2])
    IN IF g = None THEN None
       ELSE Some(<<goal[1], goal[2], goal_altitude(goal[3], Get(g))>>)

-----------------------------------------------------------------------------
(* Planning *)

RECURSIVE path_to_waypoints_wrapping(_, _, _)
\* variant: path[i - 1] read for the first cell too (index -1, the last cell)
path_to_waypoints_wrapping(d, p, i) ==
    IF i > Len(p) THEN <<>>
    ELSE LET prev == IF i > 1 THEN p[i - 1] ELSE p[Len(p)]
             orientation == Arctan2(p[i][2] - prev[2], p[i][1] - prev[1])
             wp == <<p[i][1] + Get(d.north_offset), p[i][2] + Get(d.east_offset),
                     p[i][3], orientation>>
         IN <<wp>> \o path_to_waypoints_wrapping(d, p, i + 1)

RECURSIVE path_to_waypoints(_, _, _)
\* waypoints of path p; the first i-1 cells are already converted
path_to_waypoints(d, p, i) ==
    IF i > Len(p) THEN <<>>
    ELSE LET orientation ==
                 IF i > 1
                 THEN Arctan2(p[i][2] - p[i - 1][2], p[i][1] - p[i - 1][1])
                 ELSE ZeroHeading
             wp == <<p[i][1] + Get(d.north_offset), p[i][2] + Get(d.east_offset),
                     p[i][3], orientation>>
         IN <<wp>> \o path_to_waypoints(d, p, i + 1)

\* plan_path with the results of its collaborators as inputs: how the run
\* ends, the offsets of the grid and the path of the planner
plan_path(d, outcome, offs, p) ==
    LET d1 == [d EXCEPT !.flight_state = "PLANNING"]
        d2 == Emit(d1, "print_searching_path", <<>>)
        d3 == [d2 EXCEPT !.target_position[3] = TARGET_ALTITUDE]
        \* header of colliders.csv parsed, home set
        d4 == Emit(d3, "set_home_position", <<>>)
        \* obstacle data loaded, grid created
        d5 == [d4 EXCEPT !.north_offset = Some(offs[1]),
                         !.east_offset = Some(offs[2])]
        \* start and goal cells indexed, path searched, pruned, simplified
        d6 == Emit(d5, "print_path_found", <<>>)
        d7 == [d6 EXCEPT !.path = Some(p)]
        d8 == [d7 EXCEPT !.waypoints = path_to_waypoints(d7, p, 1)]
    IN CASE outcome = "bad_header" -> d3
         [] outcome = "bad_data" -> d4
         [] outcome = "goal_out_of_range" -> d5
         [] outcome = "no_path" -> d5
         [] OTHER -> send_waypoints(d8)

-----------------------------------------------------------------------------
(* Callbacks *)

local_position_callback(d) ==
    IF d.flight_state = "TAKEOFF" THEN
        IF TakeoffAltitudeReached(d) THEN waypoint_transition(d) ELSE d
    ELSE IF d.flight_state = "WAYPOINT" THEN
        IF HorizontalReached(d) /\ VerticalReached(d) THEN
            IF Len(d.waypoints) > 0 THEN waypoint_transition(d)
            ELSE IF SlowEnough(d) THEN landing_transition(d) ELSE d
        ELSE d
    ELSE d

velocity_callback(d) ==
    IF d.flight_state = "LANDING" THEN
        IF NearHomeAltitude(d) THEN
            IF OnGround(d) THEN disarming_transition(d) ELSE d
        ELSE d
    ELSE d

\* variant: the test of in_mission left out
state_callback_unguarded(d, outcome, offs, p) ==
    IF d.flight_state = "MANUAL" THEN arming_transition(d)
    ELSE IF d.flight_state = "ARMING" THEN
        IF d.armed THEN plan_path(d, outcome, offs, p) ELSE d
    ELSE IF d.flight_state = "PLANNING" THEN takeoff_transition(d)
    ELSE IF d.flight_state = "DISARMING" THEN
        IF DisarmedAndReleased(d) THEN manual_transition(d) ELSE d
    ELSE d

state_callback(d, outcome, offs, p) ==
    IF d.in_mission THEN
        IF d.flight_state = "MANUAL" THEN arming_transition(d)
        ELSE IF d.flight_state = "ARMING" THEN
            IF d.armed THEN plan_path(d, outcome, offs, p) ELSE d
        ELSE IF d.flight_state = "PLANNING" THEN takeoff_transition(d)
        ELSE IF d.flight_state = "DISARMING" THEN
            IF DisarmedAndReleased(d) THEN manual_transition(d) ELSE d
        ELSE d
    ELSE d

-----------------------------------------------------------------------------
(* The state machine *)

\* the drone object in the current state
Self ==
    [flight_state |-> flight_state, in_mission |-> in_mission,
     target_position |-> target_position, waypoints |-> waypoints,
     path |-> path, north_offset |-> north_offset, east_offset |-> east_offset,
     log |-> log, local_position |-> local_position,
     local_velocity |-> local_velocity, global_position |-> global_position,
     armed |-> armed, guided |-> guided]

\* the drone object after a message of kind k was handled: d0 is the object
\* when the callback was entered, d the object when it ended
Deliver(k, d0, d) ==
    \E e \in {d} :
        /\ fired' = (e # d0)
        /\ flight_state' = e.flight_state
        /\ in_mission' = e.in_mission
        /\ target_position' = e.target_position
        /\ waypoints' = e.waypoints
        /\ path' = e.path
        /\ north_offset' = e.north_offset
        /\ east_offset' = e.east_offset
        /\ log' = e.log
        /\ local_position' = e.local_position
        /\ local_velocity' = e.local_velocity
        /\ global_position' = e.global_position
        /\ armed' = e.armed
        /\ guided' = e.guided
        /\ event' = k
        /\ UNCHANGED <<call, result>>

Init ==
    /\ flight_state = "MANUAL"
    /\ in_mission = TRUE
    /\ target_position = <<0, 0, 0>>
    /\ waypoints = <<>>
    /\ path = None
    /\ north_offset = None
    /\ east_offset = None
    /\ log = <<>>
    /\ local_position = <<0, 0, 0>>
    /\ local_velocity = <<0, 0, 0>>
    /\ global_position = <<0, 0, 0>>
    /\ armed = FALSE
    /\ guided = FALSE
    /\ event = "NONE"
    /\ fired = FALSE
    /\ call = [fn |-> "none", args |-> <<>>]
    /\ result = None

\* MsgID.LOCAL_POSITION: the property is updated, then the callback runs
LocalPositionEvent ==
    \E pos \in Positions :
        \E d0 \in {[Self EXCEPT !.local_position = pos]} :
            Deliver("LOCAL_POSITION", d0, local_position_callback(d0))

\* MsgID.LOCAL_VELOCITY
LocalVelocityEvent ==
    \E v \in Velocities :
        \E d0 \in {[Self EXCEPT !.local_velocity = v]} :
            Deliver("LOCAL_VELOCITY", d0, velocity_callback(d0))

\* MsgID.STATE; the planning inputs matter only when the callback plans
StateEvent ==
    \E a \in BOOLEAN, g \in BOOLEAN :
        \E d0 \in {[Self EXCEPT !.armed = a, !.guided = g]} :
           IF d0.in_mission /\ d0.flight_state = "ARMING" /\ d0.armed
           THEN \E outcome \in PlanOutcomes, offs \in Offsets, p \in Paths :
                    /\ outcome # "found" => (offs = <<0, 0>> /\ p = <<>>)
                    /\ Deliver("STATE", d0, state_callback(d0, outcome, offs, p))
           ELSE Deliver("STATE", d0, state_callback(d0, "found", <<0, 0>>, <<>>))

\* MsgID.GLOBAL_POSITION: no callback is registered, the property is updated
GlobalPositionEvent ==
    \E gp \in GlobalPositions :
        \E d0 \in {[Self EXCEPT !.global_position = gp]} :
            Deliver("GLOBAL_POSITION", d0, d0)

Next ==
    \/ LocalPositionEvent
    \/ LocalVelocityEvent
    \/ StateEvent
    \/ GlobalPositionEvent

Spec == Init /\ [][Next]_vars

-----------------------------------------------------------------------------
(* The conversions and the cell selection of plan_path, called on their own *)
(* with enumerated arguments                                                *)

\* the fields of the controller and the telemetry
ctrl == <<flight_state, in_mission, target_position, waypoints, path,
          north_offset, east_offset, log, local_position, local_velocity,
          global_position, armed, guided, event, fired>>

\* the drone object once create_grid has returned the offsets offs
WithOffsets(offs) ==
    [Self EXCEPT !.north_offset = Some(offs[1]), !.east_offset = Some(offs[2])]

\* integer cells within the index range of the grid
GridCells ==
    {<<n, e, a>> : n \in 0..(GridSize - 1), e \in 0..(GridSize - 1), a \in {0, 5, 7}}

\* local positions, fixed point: whole and fractional, inside the grid,
\* before its first row and beyond its last; heights 7.5 m down to -1.5 m
LocalPositions ==
    {<<n, e, dn>> : n \in {-150, -100, 0, 50, GridSize * Scale},
                    e \in {0, 50},
                    dn \in {-750, -700, -450, -50, 0, 50, 150}}

\* grid heights, fixed point: free, below, above the cruise altitude
GridValues == {0, 450, 700, 1250}

\* grids with one obstacle column
Grids ==
    {[r \in 1..GridSize |-> [c \in 1..GridSize |-> IF r = i /\ c = j THEN g ELSE 0]] :
        i \in 1..GridSize, j \in 1..GridSize, g \in GridValues}

\* paths for the conversion to waypoints: turns, a straight run, a climb
LongPaths ==
    {p \in SeqsUpTo({<<0, 0, 5>>, <<1, 1, 5>>, <<2, 2, 6>>, <<2, 1, 5>>}, 3) :
        \A i \in 1..(Len(p) - 1) : p[i] # p[i + 1]}

\* one call per run: the conversions keep no state between calls
Called(name, args, res) ==
    /\ call.fn = "none"
    /\ call' = [fn |-> name, args |-> args]
    /\ result' = res
    /\ UNCHANGED ctrl

CallRoundTrip ==
    \E c \in GridCells, offs \in Offsets :
        LET d == WithOffsets(offs)
        IN Called("round_trip", <<c, offs>>, local_to_grid(d, grid_to_local(d, c)))

CallLocalToGrid ==
    \E pos \in LocalPositions, offs \in Offsets :
        Called("local_to_grid", <<pos, offs>>, local_to_grid(WithOffsets(offs), pos))

CallGridStart ==
    \E pos \in LocalPositions, offs \in Offsets, grid \in Grids :
        Called("grid_start", <<pos, offs, grid>>, grid_start(WithOffsets(offs), grid, pos))

CallGridGoal ==
    \E pos \in LocalPositions, offs \in Offsets, grid \in Grids :
        Called("grid_goal", <<pos, offs, grid>>, grid_goal(WithOffsets(offs), grid, pos))

CallPathToWaypoints ==
    \E p \in LongPaths, offs \in Offsets :
        Called("path_to_waypoints", <<p, offs>>, path_to_waypoints(WithOffsets(offs), p, 1))

ConversionsNext ==
    \/ CallRoundTrip
    \/ CallLocalToGrid
    \/ CallGridStart
    \/ CallGridGoal
    \/ CallPathToWaypoints

Conversions == Init /\ [][ConversionsNext]_vars

-----------------------------------------------------------------------------
(* Vocabulary of the properties: the flight-phase table and its guards,    *)
(* stated from the specification's numbers on the observable state         *)

\* number of entries of l named name
Count(l, name) == Cardinality({i \in 1..Len(l) : l[i].cmd = name})

IsCmdPosition(e) == e.cmd = "cmd_position"

RECURSIVE Issued(_)
\* the waypoints of the position commands of l, in the order issued
Issued(l) ==
    IF l = <<>> THEN <<>>
    ELSE IF IsCmdPosition(Head(l)) THEN <<Head(l).args>> \o Issued(Tail(l))
    ELSE Issued(Tail(l))

\* commands to the vehicle (not the prints, not the visualisation data)
VehicleCommands == {"arm", "take_control", "takeoff", "cmd_position", "land",
                    "disarm", "release_control", "set_home_position"}

\* horizontal error of position pos against target t, squared, fixed point
HorizErrSq(t, pos) ==
    (t[1] * Scale - pos[1]) * (t[1] * Scale - pos[1])
        + (t[2] * Scale - pos[2]) * (t[2] * Scale - pos[2])

\* vertical error of pos against t, fixed point
VertErr(t, pos) == Abs(t[3] * Scale + pos[3])

SpeedSq(v) == v[1] * v[1] + v[2] * v[2]

\* horizontal error < 3.0 m and vertical error < 2.0 m
WithinThresholds(t, pos) ==
    /\ HorizErrSq(t, pos) < 9 * Scale * Scale
    /\ VertErr(t, pos) < 2 * Scale

\* the edges of the flight-phase table
TableEdges ==
    {<<"MANUAL", "ARMING">>, <<"ARMING", "PLANNING">>, <<"PLANNING", "TAKEOFF">>,
     <<"TAKEOFF", "WAYPOINT">>, <<"WAYPOINT", "WAYPOINT">>,
     <<"WAYPOINT", "LANDING">>, <<"LANDING", "DISARMING">>,
     <<"DISARMING", "MANUAL">>}

\* the step delivers a message of kind k
Delivers(k) == event' = k

\* the telemetry of a step: the values the delivered message carries
Telemetry == <<local_position, local_velocity, global_position, armed, guided>>

\* the planning run has started and ended without a path, or with an empty one
PlanningFailed ==
    /\ Count(log, "print_searching_path") > 0
    /\ (path = None \/ Get(path) = <<>>)

\* the step is the one in which plan_path runs
PlanningStep == flight_state = "ARMING" /\ flight_state' = "PLANNING"

\* the table's guard of the current phase holds for the message of the step
TableGuardHolds ==
    \/ flight_state = "MANUAL" /\ Delivers("STATE") /\ in_mission
    \/ flight_state = "ARMING" /\ Delivers("STATE") /\ armed'
    \/ flight_state = "PLANNING" /\ Delivers("STATE")
    \/ /\ flight_state = "TAKEOFF" /\ Delivers("LOCAL_POSITION")
       /\ -1 * local_position'[3] * 100 >= 95 * target_position[3] * Scale
    \/ /\ flight_state = "WAYPOINT" /\ Delivers("LOCAL_POSITION")
       /\ WithinThresholds(target_position, local_position')
    \/ /\ flight_state = "LANDING" /\ Delivers("LOCAL_VELOCITY")
       /\ global_position'[3] * 10 < Scale
       /\ Abs(local_position'[3]) * 100 < Scale
    \/ flight_state = "DISARMING" /\ Delivers("STATE") /\ ~armed' /\ ~guided'

-----------------------------------------------------------------------------
(* Properties *)

\* C1: once the planning pipeline has failed (no path, an empty path, bad
\* obstacle data, goal index out of range) the controller is in Manual with
\* in_mission cleared, and no takeoff, position command or waypoint list has
\* been issued.
C1_PlanFailureAbortsToManual ==
    PlanningFailed =>
        /\ flight_state = "MANUAL"
        /\ ~in_mission
        /\ Count(log, "takeoff") = 0
        /\ Count(log, "cmd_position") = 0
        /\ Count(log, "send_waypoints") = 0

\* C2: a status event in Disarming with armed or guided still set leaves the
\* controller in Disarming with in_mission set.
C2_DisarmingWaitsForDisarmedAndUnguided ==
    [][(flight_state = "DISARMING" /\ Delivers("STATE") /\ (armed' \/ guided'))
          => (flight_state' = "DISARMING" /\ in_mission')]_vars

\* C3: every change of flight_state is an edge of the table, and in_mission
\* is cleared only by the step Disarming -> Manual.
C3_OnlyTableEdges ==
    [][/\ flight_state' # flight_state
            => <<flight_state, flight_state'>> \in TableEdges
       /\ (in_mission /\ ~in_mission')
            => (flight_state = "DISARMING" /\ flight_state' = "MANUAL")]_vars

\* C3 witness: a mission that went round the whole table, through two
\* waypoints, back to Manual
C3_Witness ==
    /\ flight_state = "MANUAL"
    /\ ~in_mission
    /\ Count(log, "cmd_position") = 2
    /\ Count(log, "land") = 1

\* C4: land is commanded, and Landing entered, only by a position event in
\* Waypoint with horizontal error < 3.0, vertical error < 2.0, an empty queue
\* and horizontal speed < 1.0; a position event in Waypoint with speed >= 1.0
\* leaves the controller in Waypoint without a land command.
C4_LandOnlyWhenReachedEmptyAndSlow ==
    [][/\ (Count(log', "land") > Count(log, "land")
             \/ (flight_state' = "LANDING" /\ flight_state # "LANDING"))
            => /\ flight_state = "WAYPOINT"
               /\ Delivers("LOCAL_POSITION")
               /\ WithinThresholds(target_position, local_position')
               /\ waypoints = <<>>
               /\ SpeedSq(local_velocity') < Scale * Scale
               /\ Count(log', "land") = Count(log, "land") + 1
               /\ flight_state' = "LANDING"
       /\ (/\ flight_state = "WAYPOINT"
           /\ Delivers("LOCAL_POSITION")
           /\ SpeedSq(local_velocity') >= Scale * Scale)
            => /\ flight_state' = "WAYPOINT"
               /\ Count(log', "land") = Count(log, "land")]_vars

\* C4 witness: the position event that has just commanded land
C4_Witness ==
    /\ flight_state = "LANDING"
    /\ event = "LOCAL_POSITION"
    /\ fired
    /\ log[Len(log)].cmd = "land"

\* C5: when a message has made the controller act, the same message (same
\* kind, same values) delivered again at once does not make it act again.
C5_RepeatedEventActsOnce ==
    [][(event' = event /\ Telemetry' = Telemetry /\ fired) => ~fired']_vars

\* C6: each of arm, take_control, takeoff, land, disarm and release_control
\* is issued at most once.
C6_CommandsAtMostOnce ==
    \A c \in {"arm", "take_control", "takeoff", "land", "disarm", "release_control"} :
        Count(log, c) <= 1

\* C6 witness: a finished mission, with further status events delivered
\* after its end
C6_Witness ==
    /\ \A c \in {"arm", "take_control", "takeoff", "land", "disarm",
                 "release_control"} : Count(log, c) = 1
    /\ ~in_mission
    /\ event = "STATE"
    /\ ~fired

\* the waypoint list the planning run has loaded (none before it)
Planned ==
    LET sent == {i \in 1..Len(log) : log[i].cmd = "send_waypoints"}
    IN IF sent = {} THEN <<>> ELSE log[CHOOSE i \in sent : TRUE].args

\* C7: the position commands issued so far, followed by the queue, are the
\* planned waypoints in planned order (so issued + queued = planned, each
\* dispatched at most once, in FIFO order); a step issues at most one, on a
\* position event: the first when the takeoff altitude guard holds, a later
\* one when the current target is reached within the thresholds.
C7_WaypointsDispatchedInOrder ==
    /\ [](/\ Issued(log) \o waypoints = Planned
          /\ Len(Issued(log)) + Len(waypoints) = (IF path = None THEN 0 ELSE Len(Get(path))))
    /\ [][Issued(log') # Issued(log)
            => /\ Issued(log') = Append(Issued(log), Head(waypoints))
               /\ waypoints # <<>>
               /\ Delivers("LOCAL_POSITION")
               /\ \/ /\ flight_state = "TAKEOFF"
                     /\ Issued(log) = <<>>
                     /\ -1 * local_position'[3] * 100 >= 95 * target_position[3] * Scale
                  \/ /\ flight_state = "WAYPOINT"
                     /\ Issued(log) # <<>>
                     /\ WithinThresholds(target_position, local_position')]_vars

\* C7 witness: two planned waypoints, both dispatched
C7_Witness ==
    /\ path # None
    /\ Len(Get(path)) = 2
    /\ Len(Issued(log)) = 2
    /\ waypoints = <<>>

\* C8: a message for which the table's guard of the current phase does not
\* hold changes neither phase, target, queue nor in_mission and emits nothing.
C8_UnguardedEventIgnored ==
    [][~TableGuardHolds
          => UNCHANGED <<flight_state, target_position, waypoints, in_mission, log>>]_vars

\* what the planning step adds to the log
AddedByStep == SubSeq(log', Len(log) + 1, Len(log'))

\* the entries of l before the print that reports the path (all of l when
\* the path was never reported)
BeforePathFound(l) ==
    LET found == {i \in 1..Len(l) : l[i].cmd = "print_path_found"}
    IN IF found = {} THEN l
       ELSE SubSeq(l, 1, (CHOOSE i \in found : \A j \in found : i <= j) - 1)

\* C9 as stated: the planning step sends nothing to the vehicle before the
\* path has been computed and no vehicle command before it ends, and takeoff
\* and position commands come only after the planning step.
C9_NothingSentBeforePathComputed ==
    /\ [][PlanningStep
            => /\ \A i \in 1..Len(BeforePathFound(AddedByStep)) :
                     BeforePathFound(AddedByStep)[i].cmd
                        \notin VehicleCommands \cup {"send_waypoints"}
               /\ \A i \in 1..Len(AddedByStep) :
                     AddedByStep[i].cmd \notin VehicleCommands]_vars
    /\ [][(Count(log', "takeoff") + Count(log', "cmd_position")
             > Count(log, "takeoff") + Count(log, "cmd_position"))
            => Count(log, "print_searching_path") > 0]_vars

\* C9 amended: the planning step issues no arm, take_control, takeoff,
\* position, land, disarm or release command; before the path is computed it
\* sends set_home_position and nothing else, the waypoint list only after;
\* takeoff and position commands come only after the planning step.
C9_OnlyHomeSetBeforePathComputed ==
    /\ [][PlanningStep
            => /\ \A i \in 1..Len(BeforePathFound(AddedByStep)) :
                     BeforePathFound(AddedByStep)[i].cmd
                        \in {"print_searching_path", "set_home_position"}
               /\ \A i \in 1..Len(AddedByStep) :
                     AddedByStep[i].cmd \notin (VehicleCommands \ {"set_home_position"})]_vars
    /\ [][(Count(log', "takeoff") + Count(log', "cmd_position")
             > Count(log, "takeoff") + Count(log, "cmd_position"))
            => (Count(log, "print_searching_path") > 0 /\ ~PlanningStep)]_vars

\* C9 witness: a planning run that has computed a path and sent the list,
\* with no takeoff yet
C9_Witness ==
    /\ flight_state = "PLANNING"
    /\ Count(log, "set_home_position") = 1
    /\ Count(log, "send_waypoints") = 1
    /\ Len(waypoints) > 0
    /\ Count(log, "takeoff") = 0

\* C10 as stated: a position event in Takeoff moves to Waypoint exactly when
\* altitude >= 0.95 x target altitude.
C10_TakeoffFiresAtOrAboveThreshold ==
    [][(flight_state = "TAKEOFF" /\ Delivers("LOCAL_POSITION"))
          => ((flight_state' = "WAYPOINT")
                <=> (-1 * local_position'[3] * 100 >= 95 * target_position[3] * Scale))]_vars

\* C10 amended: a position event in Takeoff moves to Waypoint exactly when
\* altitude > 0.95 x target altitude; at altitude = 0.95 x target and below
\* the controller stays in Takeoff and issues no position command.
C10_TakeoffFiresAboveThreshold ==
    [][(flight_state = "TAKEOFF" /\ Delivers("LOCAL_POSITION"))
          => IF -1 * local_position'[3] * 100 > 95 * target_position[3] * Scale
             THEN flight_state' = "WAYPOINT"
             ELSE /\ flight_state' = "TAKEOFF"
                  /\ Count(log', "cmd_position") = Count(log, "cmd_position")]_vars

\* C10 witness: a position event at exactly 0.95 x target altitude has left
\* the controller in Takeoff
C10_Witness ==
    /\ flight_state = "TAKEOFF"
    /\ event = "LOCAL_POSITION"
    /\ -1 * local_position[3] * 100 = 95 * target_position[3] * Scale
    /\ ~fired

\* the names of what the step adds to the log, in order
AddedNames == [i \in 1..Len(AddedByStep) |-> AddedByStep[i].cmd]

\* C11 as stated: a status event in Manual with the mission active issues
\* take_control and then arm and moves to Arming; planning runs only on a
\* status event that reports armed.
C11_ControlThenArm ==
    /\ [][(flight_state = "MANUAL" /\ in_mission /\ Delivers("STATE"))
            => (flight_state' = "ARMING" /\ AddedNames = <<"take_control", "arm">>)]_vars
    /\ [][PlanningStep => (Delivers("STATE") /\ armed')]_vars

\* C11 amended: a status event in Manual with the mission active issues arm
\* and then take_control, in that order, and moves to Arming; planning runs
\* only on a status event that reports armed.
C11_ArmThenControl ==
    /\ [][(flight_state = "MANUAL" /\ in_mission /\ Delivers("STATE"))
            => (flight_state' = "ARMING" /\ AddedNames = <<"arm", "take_control">>)]_vars
    /\ [][PlanningStep => (Delivers("STATE") /\ armed')]_vars

\* C11 witness: the status event that has just armed, not yet reporting armed
C11_Witness ==
    /\ flight_state = "ARMING"
    /\ event = "STATE"
    /\ fired
    /\ ~armed
    /\ Len(log) = 2

\* C12: disarm and release_control are issued, and Disarming entered, only
\* from Landing with altitude above home < 0.1 m and |local down| < 0.01 m,
\* disarm first; a message in Landing for which either bound fails leaves
\* the controller in Landing and issues neither.
C12_DisarmOnlyWhenLanded ==
    [][/\ (\/ Count(log', "disarm") > Count(log, "disarm")
           \/ Count(log', "release_control") > Count(log, "release_control")
           \/ (flight_state' = "DISARMING" /\ flight_state # "DISARMING"))
            => /\ flight_state = "LANDING"
               /\ flight_state' = "DISARMING"
               /\ (global_position'[3] - 0) * 10 < Scale
               /\ Abs(local_position'[3]) * 100 < Scale
               /\ AddedNames = <<"disarm", "release_control">>
       /\ (/\ flight_state = "LANDING"
           /\ (global_position'[3] * 10 >= Scale \/ Abs(local_position'[3]) * 100 >= Scale))
            => /\ flight_state' = "LANDING"
               /\ log' = log]_vars

\* C12 witness: the velocity event that has just disarmed and released
C12_Witness ==
    /\ flight_state = "DISARMING"
    /\ event = "LOCAL_VELOCITY"
    /\ fired
    /\ log[Len(log)].cmd = "release_control"

\* C17: waypoint_transition runs only with a non-empty queue: a step that
\* enters Waypoint from Takeoff, or issues a position command, starts with a
\* waypoint queued and commands it; the controller is never in Waypoint
\* with no position command issued.
C17_NeverPopsEmptyQueue ==
    /\ [][((flight_state = "TAKEOFF" /\ flight_state' = "WAYPOINT")
             \/ Issued(log') # Issued(log))
            => (waypoints # <<>> /\ Len(Issued(log')) = Len(Issued(log)) + 1)]_vars
    /\ [](flight_state = "WAYPOINT" => Count(log, "cmd_position") > 0)

\* C18: once in_mission is cleared the phase is Manual, and every later
\* message leaves phase, flag, target and queue as they are and emits nothing.
C18_ManualIsAbsorbing ==
    /\ [](~in_mission => flight_state = "MANUAL")
    /\ [][~in_mission
            => /\ flight_state' = "MANUAL"
               /\ ~in_mission'
               /\ UNCHANGED <<log, target_position, waypoints>>]_vars

\* C18 witness: a velocity event delivered after the mission has ended
C18_Witness ==
    /\ ~in_mission
    /\ event = "LOCAL_VELOCITY"
    /\ Count(log, "stop") = 1

\* C13: converting an integer cell of the grid to a local position and back,
\* with integer offsets, returns the cell.
C13_RoundTrip ==
    call.fn = "round_trip" => result = call.args[1]

\* C13 witness: a cell above the ground, with non-zero offsets, went round
C13_Witness ==
    /\ call.fn = "round_trip"
    /\ call.args[1] = <<1, 1, 7>>
    /\ call.args[2] = <<-1, -2>>
    /\ result = <<1, 1, 7>>

\* ceil of a fixed-point height, in whole metres
Ceil(h) == -1 * ((-1 * h) \div Scale)

\* C14 as stated: the altitude index local_to_grid returns for the height
\* h = -down is max(0, ceil(h)).
C14_AltitudeIsNonNegativeCeiling ==
    call.fn = "local_to_grid"
        => LET h == -1 * call.args[1][3]
           IN result[3] = (IF Ceil(h) > 0 THEN Ceil(h) ELSE 0)

\* C14 amended: the altitude index is the height truncated toward zero: the
\* whole metres k with k <= h < k + 1 for h >= 0, and with k - 1 < h <= k
\* for h <= 0 (so a negative index for heights of -1 m and below).
C14_AltitudeIsTruncatedHeight ==
    call.fn = "local_to_grid"
        => LET h == -1 * call.args[1][3]
               k == result[3]
           IN IF h >= 0 THEN k * Scale <= h /\ h < (k + 1) * Scale
              ELSE (k - 1) * Scale < h /\ h <= k * Scale

\* C14 witness: the height 4.5 m has been converted, to the index 4
C14_Witness ==
    /\ call.fn = "local_to_grid"
    /\ call.args[1][3] = -450
    /\ result[3] = 4

\* C15: path_to_waypoints returns one waypoint per cell, in order: north and
\* east are the cell's plus the offsets, the altitude is the cell's, the
\* first heading is 0 and every later heading is the angle of the
\* displacement from the previous cell.
C15_WaypointsFollowPath ==
    call.fn = "path_to_waypoints"
        => LET p == call.args[1]
               offs == call.args[2]
           IN /\ Len(result) = Len(p)
              /\ \A i \in 1..Len(p) :
                    /\ result[i][1] = p[i][1] + offs[1]
                    /\ result[i][2] = p[i][2] + offs[2]
                    /\ result[i][3] = p[i][3]
                    /\ result[i][4] =
                          (IF i = 1 THEN ZeroHeading
                           ELSE Arctan2(p[i][2] - p[i - 1][2], p[i][1] - p[i - 1][1]))

\* C15 witness: a path of three cells that ends away from its first cell,
\* converted with non-zero offsets
C15_Witness ==
    /\ call.fn = "path_to_waypoints"
    /\ call.args[1] = <<<<0, 0, 5>>, <<1, 1, 5>>, <<2, 2, 6>>>>
    /\ call.args[2] = <<-1, -2>>
    /\ Len(result) = 3

\* C16: a start or goal cell inside the grid that plan_path hands to the
\* planner has an altitude layer strictly above the grid value of its column
\* and not below TARGET_ALTITUDE.
C16_StartAndGoalAboveObstacle ==
    (call.fn \in {"grid_start", "grid_goal"} /\ result # None)
        => LET cell == Get(result)
               grid == call.args[3]
           IN (/\ 0 <= cell[1] /\ cell[1] < Len(grid)
               /\ 0 <= cell[2] /\ cell[2] < Len(grid[1]))
                => /\ cell[3] * Scale > grid[cell[1] + 1][cell[2] + 1]
                   /\ cell[3] >= TARGET_ALTITUDE

\* C16 witness: a goal on the ground over a column of height 7.0 m, given
\* the layer 8
C16_Witness ==
    /\ call.fn = "grid_goal"
    /\ result # None
    /\ call.args[1][3] = 0
    /\ Get(result)[1] = 0
    /\ Get(result)[2] = 0
    /\ call.args[3][1][1] = 700
    /\ Get(result)[3] = 8

\* some enumerated position reaches the waypoint wp within the thresholds
TargetReachable(wp) == \E pos \in Positions : WithinThresholds(wp, pos)

\* the missions of C19: the planning run succeeds with a non-empty list of
\* waypoints, each of which the telemetry can reach
SuccessfulPlanning ==
    PlanningStep
        => /\ path' # None
           /\ waypoints' # <<>>
           /\ \A i \in 1..Len(waypoints') : TargetReachable(waypoints'[i])

LiveNext == Next /\ SuccessfulPlanning

\* fair delivery: a message that makes the controller act is not withheld
\* for ever when it is possible again and again
LiveSpec == Init /\ [][LiveNext]_vars /\ SF_vars(fired' = TRUE /\ LiveNext)

\* the stored telemetry satisfies what the guard of the current phase reads
\* from it: the speed for landing, the two altitudes for disarming
TelemetryReady ==
    /\ (flight_state = "WAYPOINT" /\ waypoints = <<>>)
          => SpeedSq(local_velocity) < Scale * Scale
    /\ flight_state = "LANDING"
          => (global_position[3] * 10 < Scale /\ Abs(local_position[3]) * 100 < Scale)

MissionDone == flight_state = "MANUAL" /\ ~in_mission /\ waypoints = <<>>

\* C19: when planning succeeds with reachable waypoints, messages are
\* delivered fairly and the telemetry satisfies the guards again and again,
\* the mission eventually is back in Manual with in_mission cleared and the
\* queue empty.
C19_MissionEventuallyEnds ==
    ([]<>TelemetryReady) => <>MissionDone

\* C19 witness: a mission with planned waypoints, all dispatched, has ended
C19_Witness ==
    /\ MissionDone
    /\ path # None
    /\ Len(Get(path)) = MaxPathLen
    /\ Len(Issued(log)) = Len(Get(path))
    /\ Count(log, "stop") = 1
    /\ event = "STATE"
    /\ fired

====
